---- MODULE Spec2Model ----
(***************************************************************************)
(* Verification model of ufw-parser.                                       *)
(*                                                                         *)
(*  - the ports grammar of application profiles                            *)
(*      (src/src/application.rs, ApplicationEntry::parse_ports),           *)
(*  - the profile entry builder (ApplicationEntry::parse,                  *)
(*      Application::parse_file),                                          *)
(*  - the rule-line parse (src/src/numbered.rs: parse, parse_line and the   *)
(*      reducer TryFrom<Vec<Element>> for Line),                           *)
(*  - the report extractors (src/src/ufw.rs, UfwCommand::version, info,    *)
(*      defaults), the address conversion and the staged rule set (Ufw).   *)
(*                                                                         *)
(* Text is a sequence of symbols, one character each; an address literal   *)
(* and a word of a report are one symbol.  Option<T> is <<>> for None and  *)
(* <<v>> for Some(v).  A Result is a record with a boolean field ok.       *)
(***************************************************************************)
EXTENDS Integers, Sequences, FiniteSets, TLC

VARIABLES
    text,           \* the ports value handed to ApplicationEntry::parse
    nfrags,         \* number of fragments text was written from
    pc,             \* "input" while the value is written, "done" once parsed
    ports_result,   \* outcome of application.rs:30-40 (the ports vector or EmptyPortsSection)
    sections,       \* the key→optional-string maps of a profile file, by section name
    todo,           \* sections Application::parse_file has not visited yet
    entries,        \* Application.entries built so far: [name, res] in visiting order
    ppc,            \* "load" while the file is written, "parse" during parse_file, "done"
    e,              \* numbered.rs:179, the element the outer loop is at
    x,              \* numbered.rs:185, the child the inner loop is at
    toblock,        \* numbered.rs:171-177, the locals of Line::try_from
    index,
    to,
    action,
    v6,
    device,
    from,
    line,           \* what Line::try_from returned: Running, Ok(Line), an error or Panicked
    lpc,            \* "loop" in the outer loop, "tofrom" in the inner loop, "done"
    nes,            \* top-level elements consumed
    nval,           \* children of the current ToFrom consumed
    pair,           \* numbered.rs:291, the pest pair parse_line mapped last
    output,         \* ufw.rs:462-466, what exec captured from the firewall tool
    version_result, \* what UfwCommand::version returned
    info_result,    \* what UfwCommand::info returned
    defaults_result,\* what UfwCommand::defaults returned
    rpc,            \* "write" while the tool writes its report, "exited" after
    addr_text,      \* the text handed to Address::try_from (ufw.rs)
    addr_nfrags,    \* number of fragments addr_text was written from
    address_result, \* what Address::try_from returned
    ufw_entries,    \* ufw.rs:236, Ufw.entries
    ucall           \* the last call on the staged rule set and what it returned

portsVars == <<text, nfrags, pc, ports_result>>
profileVars == <<sections, todo, entries, ppc>>
lineVars == <<e, x, toblock, index, to, action, v6, device, from, line, lpc, nes, nval,
             pair>>
reportVars == <<output, version_result, info_result, defaults_result, rpc>>
addressVars == <<addr_text, addr_nfrags, address_result>>
stagedVars == <<ufw_entries, ucall>>
ufwVars == <<reportVars, addressVars, stagedVars>>
vars == <<portsVars, profileVars, lineVars, ufwVars>>

(***************************************************************************)
(* Bounds of the model.                                                    *)
(***************************************************************************)
MaxFrags == 4       \* number of fragments a ports value is written from
MaxSections == 2    \* number of sections of a profile file
MaxElems == 4       \* number of top-level elements of a rule line
MaxChildren == 2    \* number of children of one ToFrom group
MaxLines == 3       \* number of lines of a report
MaxAddrFrags == 3   \* number of fragments an address text is written from
MaxRules == 3       \* number of staged rule entries

U16Max == 65535
U8Max == 255
CidrMax == 32      \* numbered.rs:137

None == <<>>
Some(v) == <<v>>

(***************************************************************************)
(* std: str::split, str::contains, str::parse::<u16>                       *)
(***************************************************************************)
Chars(s, c) == {i \in 1..Len(s) : s[i] = c}

contains(s, c) == Chars(s, c) # {}

First(S) == CHOOSE i \in S : \A j \in S : i <= j

\* str::split(c): the pieces between the occurrences of c; never empty
\* (the empty text splits into one empty piece).
RECURSIVE split(_, _)
split(s, c) ==
    IF ~contains(s, c) THEN <<s>>
    ELSE LET i == First(Chars(s, c))
         IN  <<SubSeq(s, 1, i - 1)>> \o split(SubSeq(s, i + 1, Len(s)), c)

Digits == {"0", "1", "2", "3", "4", "5", "6", "7", "8", "9"}

DigitVal(c) ==
    CASE c = "0" -> 0 [] c = "1" -> 1 [] c = "2" -> 2 [] c = "3" -> 3
      [] c = "4" -> 4 [] c = "5" -> 5 [] c = "6" -> 6 [] c = "7" -> 7
      [] c = "8" -> 8 [] c = "9" -> 9

IntOk(v) == [ok |-> TRUE, val |-> v]
IntErr(kind) == [ok |-> FALSE, kind |-> kind]

\* The digit loop of u16::from_str: left to right, the first invalid digit or
\* the first overflow ends it.
RECURSIVE FromDigits(_, _)
FromDigits(d, acc) ==
    IF d = <<>> THEN IntOk(acc)
    ELSE IF Head(d) \notin Digits THEN IntErr("invalid digit found in string")
    ELSE IF acc * 10 + DigitVal(Head(d)) > U16Max
         THEN IntErr("number too large to fit in target type")
    ELSE FromDigits(Tail(d), acc * 10 + DigitVal(Head(d)))

\* A variant of the digit loop that wraps around at 2^16 instead of failing.
RECURSIVE FromDigitsWrapping(_, _)
FromDigitsWrapping(d, acc) ==
    IF d = <<>> THEN IntOk(acc)
    ELSE IF Head(d) \notin Digits THEN IntErr("invalid digit found in string")
    ELSE FromDigitsWrapping(Tail(d), (acc * 10 + DigitVal(Head(d))) % (U16Max + 1))

ParseU16Wrapping(s) ==
    IF s = <<>> THEN IntErr("cannot parse integer from empty string")
    ELSE LET d == IF Head(s) = "+" THEN Tail(s) ELSE s
         IN  IF d = <<>> THEN IntErr("invalid digit found in string")
             ELSE FromDigitsWrapping(d, 0)

\* str::parse::<u16>(): empty text, a lone sign, a '-' and any non-digit are
\* errors; one leading '+' is accepted.
ParseU16(s) ==
    IF s = <<>> THEN IntErr("cannot parse integer from empty string")
    ELSE LET d == IF Head(s) = "+" THEN Tail(s) ELSE s
         IN  IF d = <<>> THEN IntErr("invalid digit found in string")
             ELSE FromDigits(d, 0)

(***************************************************************************)
(* ufw.rs: Protocol, UfwPort; lib.rs: ParseError                           *)
(***************************************************************************)
Ok(v) == [ok |-> TRUE, val |-> v]
Err(kind, m) == [ok |-> FALSE, err |-> kind, msg |-> m]

UfwPort(n, last, p) == [number |-> n, end_number |-> last, protocols |-> p]

TCP == <<"t", "c", "p">>
UDP == <<"u", "d", "p">>

\* impl TryFrom<&str> for Protocol (ufw.rs)
ProtocolTryFromSwapped(v) ==
    IF v = TCP THEN Ok("UDP")
    ELSE IF v = UDP THEN Ok("TCP")
    ELSE Err("InvalidProtocol", v)

ProtocolTryFrom(v) ==
    IF v = TCP THEN Ok("TCP")
    ELSE IF v = UDP THEN Ok("UDP")
    ELSE Err("InvalidProtocol", v)

(***************************************************************************)
(* application.rs: ApplicationEntry::parse_ports                           *)
(***************************************************************************)
\* the closure of lines 70-108: one comma-separated item p
ParseItemOrdered(p, protocols) ==
    IF contains(p, ":")
    THEN LET ranges == split(p, ":")
         IN  IF Len(ranges) < 1
             THEN Err("InvalidPortRange", <<"number before colon hasn't been specified">>)
             ELSE IF Len(ranges) < 2
             THEN Err("InvalidPortRange", <<"number after colon hasn't been specified">>)
             ELSE LET start == ParseU16(ranges[1])
                      end == ParseU16(ranges[2])
                  IN  IF ~start.ok
                      THEN Err("PortNotANumber",
                               <<"Cannot parse first number in range: ", start.kind>>)
                      ELSE IF ~end.ok
                      THEN Err("PortNotANumber",
                               <<"Cannot parse second number in range: ", end.kind>>)
                      ELSE IF start.val > end.val
                      THEN Ok(UfwPort(end.val, Some(start.val), protocols))
                      ELSE Ok(UfwPort(start.val, Some(end.val), protocols))
    ELSE LET n == ParseU16(p)
         IN  IF ~n.ok THEN Err("PortNotANumber", <<n.kind>>)
             ELSE Ok(UfwPort(n.val, None, protocols))

ParseItem(p, protocols) ==
    IF contains(p, ":")
    THEN LET ranges == split(p, ":")
         IN  IF Len(ranges) < 1
             THEN Err("InvalidPortRange", <<"number before colon hasn't been specified">>)
             ELSE IF Len(ranges) < 2
             THEN Err("InvalidPortRange", <<"number after colon hasn't been specified">>)
             ELSE LET start == ParseU16(ranges[1])
                      end == ParseU16(ranges[2])
                  IN  IF ~start.ok
                      THEN Err("PortNotANumber",
                               <<"Cannot parse first number in range: ", start.kind>>)
                      ELSE IF ~end.ok
                      THEN Err("PortNotANumber",
                               <<"Cannot parse second number in range: ", end.kind>>)
                      ELSE Ok(UfwPort(start.val, Some(end.val), protocols))
    ELSE LET n == ParseU16(p)
         IN  IF ~n.ok THEN Err("PortNotANumber", <<n.kind>>)
             ELSE Ok(UfwPort(n.val, None, protocols))

\* the items of one chunk and the protocols its suffix gives them
ItemResults(items, protocols) ==
    [k \in 1..Len(items) |-> ParseItem(items[k], protocols)]

\* A variant that stops at the first failing item, as collecting into
\* Result<Vec<_>, _> would.
ParsePortsShortCircuit(entry) ==
    LET ports_protocol == split(entry, "/")
        protocols == IF Len(ports_protocol) < 2
                     THEN <<Ok("TCP"), Ok("UDP")>>
                     ELSE <<ProtocolTryFrom(ports_protocol[2])>>
        all == ItemResults(split(ports_protocol[1], ","), protocols)
        bad == {k \in 1..Len(all) : ~all[k].ok}
    IN  IF bad = {} THEN all ELSE SubSeq(all, 1, First(bad))

\* A variant that takes the suffix after the last '/' of the chunk.
ParsePortsLastSlash(entry) ==
    LET slashes == Chars(entry, "/")
        last == CHOOSE i \in slashes : \A j \in slashes : j <= i
    IN  IF slashes = {}
        THEN ItemResults(split(entry, ","), <<Ok("TCP"), Ok("UDP")>>)
        ELSE ItemResults(split(SubSeq(entry, 1, last - 1), ","),
                         <<ProtocolTryFrom(SubSeq(entry, last + 1, Len(entry)))>>)

parse_ports(entry) ==
    LET ports_protocol == split(entry, "/")
    IN  IF Len(ports_protocol) < 1
        THEN <<Err("PortsSectionEmpty", <<>>)>>
        ELSE LET s == ports_protocol[1]
                 protocols == IF Len(ports_protocol) < 2
                              THEN <<Ok("TCP"), Ok("UDP")>>
                              ELSE <<ProtocolTryFrom(ports_protocol[2])>>
             IN  ItemResults(split(s, ","), protocols)

RECURSIVE flatten(_)
flatten(ss) == IF ss = <<>> THEN <<>> ELSE Head(ss) \o flatten(Tail(ss))

\* application.rs:34-37: split("|").map(parse_ports).flatten().collect()
PortsOf(value) ==
    LET chunks == split(value, "|")
    IN  flatten([k \in 1..Len(chunks) |-> parse_ports(chunks[k])])

\* application.rs:30-40 for a ports value that is present
ParsePortsField(value) ==
    LET ports == PortsOf(value)
    IN  IF ports = <<>> THEN Err("EmptyPortsSection", <<>>) ELSE Ok(ports)

(***************************************************************************)
(* The ports value under test is written from fragments.                   *)
(***************************************************************************)
Fragments ==
    { <<"7">>, <<"6", "5", "5", "3", "5">>, <<"6", "5", "5", "3", "6">>,
      <<"x">>, <<"+">>, <<",">>, <<"|">>, <<":">>, <<"/">>,
      <<"/">> \o TCP, <<"/">> \o UDP }

NotParsed == [ok |-> FALSE, err |-> "NotParsed", msg |-> <<>>]

InitPorts ==
    /\ text = <<>>
    /\ nfrags = 0
    /\ pc = "input"
    /\ ports_result = NotParsed

InitProfile ==
    /\ sections = <<>>
    /\ todo = {}
    /\ entries = <<>>
    /\ ppc = "load"


\* one more fragment of the ports value
WriteFragment(f) ==
    /\ pc = "input"
    /\ nfrags < MaxFrags
    /\ text' = text \o f
    /\ nfrags' = nfrags + 1
    /\ UNCHANGED <<pc, ports_result, profileVars, lineVars, ufwVars>>

\* application.rs:30-40 on the value written so far
ParsePorts ==
    /\ pc = "input"
    /\ ports_result' = ParsePortsField(text)
    /\ pc' = "done"
    /\ UNCHANGED <<text, nfrags, profileVars, lineVars, ufwVars>>

(***************************************************************************)
(* application.rs: ApplicationEntry::parse, Application::parse_file        *)
(*                                                                         *)
(* A profile file is a sequence of key→optional-string maps, one per       *)
(* section; a section is named by its position.  A map is a function on    *)
(* the keys it holds, with None for a key without a value.                 *)
(***************************************************************************)
Keys == {"title", "description", "ports"}

\* HashMap::get
get(values, key) == IF key \in DOMAIN values THEN Some(values[key]) ELSE None

ApplicationEntry(name, title, description, ports) ==
    [name |-> name, title |-> title, description |-> description, ports |-> ports]

\* A variant that looks at the description before the title.
ParseEntryDescriptionFirst(entry_key, values) ==
    IF get(values, "description") = None THEN Err("MissingDescription", <<>>)
    ELSE IF values["description"] = None THEN Err("MissingDescription", <<>>)
    ELSE IF get(values, "title") = None THEN Err("MissingTitle", <<>>)
    ELSE IF values["title"] = None THEN Err("MissingTitle", <<>>)
    ELSE IF get(values, "ports") = None THEN Err("MissingPorts", <<>>)
    ELSE IF values["ports"] = None THEN Err("MissingPorts", <<>>)
    ELSE LET ports == ParsePortsField(values["ports"][1])
         IN  IF ~ports.ok THEN ports
             ELSE Ok(ApplicationEntry(entry_key, values["title"][1],
                                      values["description"][1], ports.val))

\* ApplicationEntry::parse
ParseEntry(entry_key, values) ==
    IF get(values, "title") = None THEN Err("MissingTitle", <<>>)
    ELSE IF values["title"] = None THEN Err("MissingTitle", <<>>)
    ELSE IF get(values, "description") = None THEN Err("MissingDescription", <<>>)
    ELSE IF values["description"] = None THEN Err("MissingDescription", <<>>)
    ELSE IF get(values, "ports") = None THEN Err("MissingPorts", <<>>)
    ELSE IF values["ports"] = None THEN Err("MissingPorts", <<>>)
    ELSE LET ports == ParsePortsField(values["ports"][1])
         IN  IF ~ports.ok THEN ports
             ELSE Ok(ApplicationEntry(entry_key, values["title"][1],
                                      values["description"][1], ports.val))

\* the values a key of a section may hold
ValuesOf(key) ==
    IF key = "ports" THEN {None, Some(<<"7">>), Some(<<"x">>)}
    ELSE {None, Some(<<"x">>)}

\* the maps a section may be
SectionMaps ==
    UNION { {m \in [D -> {None, Some(<<"7">>), Some(<<"x">>)}] :
                \A k \in D : m[k] \in ValuesOf(k)} : D \in SUBSET Keys }

\* one more section of the profile file
AddSection(values) ==
    /\ ppc = "load"
    /\ Len(sections) < MaxSections
    /\ sections' = Append(sections, values)
    /\ UNCHANGED <<todo, entries, ppc, portsVars, lineVars, ufwVars>>

\* application.rs:121-123: the path does not exist
ParseFileNotFound ==
    /\ ppc = "load"
    /\ sections = <<>>
    /\ ppc' = "FileNotFound"
    /\ UNCHANGED <<sections, todo, entries, portsVars, lineVars, ufwVars>>

\* application.rs:124-127: the file is loaded and the iteration over its
\* sections begins
ParseFile ==
    /\ ppc = "load"
    /\ todo' = DOMAIN sections
    /\ entries' = <<>>
    /\ ppc' = "parse"
    /\ UNCHANGED <<sections, portsVars, lineVars, ufwVars>>

\* application.rs:128-130: the map's iterator yields a section, in the
\* HashMap's own order, and its result is collected
ParseSection(k) ==
    /\ ppc = "parse"
    /\ k \in todo
    /\ entries' = Append(entries, [name |-> k, res |-> ParseEntry(k, sections[k])])
    /\ todo' = todo \ {k}
    /\ UNCHANGED <<sections, ppc, portsVars, lineVars, ufwVars>>

\* application.rs:132-135
ParseFileDone ==
    /\ ppc = "parse"
    /\ todo = {}
    /\ ppc' = "done"
    /\ UNCHANGED <<sections, todo, entries, portsVars, lineVars, ufwVars>>

NextProfile ==
    \/ \E values \in SectionMaps : AddSection(values)
    \/ ParseFileNotFound
    \/ ParseFile
    \/ \E k \in 1..MaxSections : ParseSection(k)
    \/ ParseFileDone

(***************************************************************************)
(* numbered.rs: Element, Line, impl TryFrom<Vec<Element>> for Line         *)
(*                                                                         *)
(* The vector handed to try_from is consumed one element at a time; each   *)
(* element is drawn when the loop reaches it.  An anyhow error is named by *)
(* the field it came from.                                                 *)
(***************************************************************************)
AnyErr(name) == [ok |-> FALSE, err |-> name]

Running == [ok |-> FALSE, err |-> "running"]
Panicked == [ok |-> FALSE, err |-> "panic"]

NoElement == [tag |-> "none"]

\* parse_line did not return: an unwrap or unimplemented! panicked
Abort == [tag |-> "panic"]

\* An anyhow error is named by its root cause; the contexts parse_line adds
\* wrap it and leave the cause as it is.
Anyhow(r) == IF r.ok THEN Ok(r.val) ELSE AnyErr(r.kind)

\* The digit loop of u8::from_str.
RECURSIVE FromDigitsU8(_, _)
FromDigitsU8(d, acc) ==
    IF d = <<>> THEN IntOk(acc)
    ELSE IF Head(d) \notin Digits THEN IntErr("invalid digit found in string")
    ELSE IF acc * 10 + DigitVal(Head(d)) > U8Max
         THEN IntErr("number too large to fit in target type")
    ELSE FromDigitsU8(Tail(d), acc * 10 + DigitVal(Head(d)))

\* str::parse::<u8>()
ParseU8(s) ==
    IF s = <<>> THEN IntErr("cannot parse integer from empty string")
    ELSE LET d == IF Head(s) = "+" THEN Tail(s) ELSE s
         IN  IF d = <<>> THEN IntErr("invalid digit found in string")
             ELSE FromDigitsU8(d, 0)

\* str::split_whitespace: the words of a text
RECURSIVE split_whitespace(_)
split_whitespace(s) ==
    IF s = <<>> THEN <<>>
    ELSE IF Head(s) = " " THEN split_whitespace(Tail(s))
    ELSE LET n == IF contains(s, " ") THEN First(Chars(s, " ")) - 1 ELSE Len(s)
         IN  <<SubSeq(s, 1, n)>> \o split_whitespace(SubSeq(s, n + 1, Len(s)))

\* IpAddr::from_str on the address literals of the model: a literal is one
\* symbol of a text, and a text is an address when it is one literal
V4Literals == {"10.0.0.1"}
V6Literals == {"::1"}

IpAddrFromStr(s) ==
    IF Len(s) = 1 /\ s[1] \in V4Literals \cup V6Literals THEN IntOk(s[1])
    ELSE IntErr("invalid IP address syntax")

\* impl TryFrom<&str> for Protocol (numbered.rs)
LineProtocolTryFrom(value) ==
    IF value = TCP THEN Ok("TCP")
    ELSE IF value = UDP THEN Ok("UDP")
    ELSE IF value = <<>> THEN Ok("ANY")
    ELSE AnyErr("unknown protocol")

\* impl TryFrom<Option<&str>> for Direction
DirectionTryFrom(value) ==
    IF value = None THEN Ok("BOTH")
    ELSE IF value[1] = <<"O", "U", "T">> THEN Ok("OUT")
    ELSE IF value[1] = <<"I", "N">> THEN Ok("IN")
    ELSE IF value[1] = <<>> THEN Ok("BOTH")
    ELSE AnyErr("unknown direction")

\* impl TryFrom<&str> for Modifier
ModifierTryFrom(value) ==
    IF value = <<"A", "L", "L", "O", "W">> THEN Ok("ALLOW")
    ELSE IF value = <<"D", "E", "N", "Y">> THEN Ok("DENY")
    ELSE AnyErr("unknown modifier")

\* fn parse_index: the text between the brackets, its first word
parse_index(s) ==
    Anyhow(ParseU16(split_whitespace(SubSeq(s, 2, Len(s) - 1))[1]))

\* A variant of parse_portp in which a suffix without protocol takes TCP.
ParsePortpTcpDefault(s) ==
    LET port == Anyhow(ParseU16(s[1]))
        proto == IF Len(s) >= 2 THEN LineProtocolTryFrom(s[2]) ELSE Ok("TCP")
    IN  IF ~port.ok THEN port
        ELSE IF ~proto.ok THEN proto
        ELSE Ok(<<port.val, proto.val>>)

\* fn parse_portp on the pieces of a port suffix
parse_portp(s) ==
    LET port == Anyhow(ParseU16(s[1]))
        proto == LineProtocolTryFrom(IF Len(s) >= 2 THEN s[2] ELSE <<>>)
    IN  IF ~port.ok THEN port
        ELSE IF ~proto.ok THEN proto
        ELSE Ok(<<port.val, proto.val>>)

\* fn parse_cidr
parse_cidr(s) ==
    LET n == Anyhow(ParseU8(s))
    IN  IF ~n.ok THEN n
        ELSE IF n.val > CidrMax THEN AnyErr("cidr must be >= 0 && <= 32")
        ELSE Ok(n.val)

\* A pest pair: its rule, its text and the texts of its inner pairs
Pair(rule, s, inner) == [rule |-> rule, text |-> s, inner |-> inner]

\* fn parse_line
parse_line(r) ==
    CASE r.rule = "index" ->
            LET i == parse_index(r.text)
            IN  IF i.ok THEN [tag |-> "Index", val |-> i.val] ELSE Abort
      [] r.rule = "address" ->
            [tag |-> "Address",
             res |-> IF r.inner # <<>> THEN Anyhow(IpAddrFromStr(r.inner[1]))
                     ELSE Ok("0.0.0.0")]
      [] r.rule = "protosuffix" ->
            [tag |-> "Protocol", res |-> LineProtocolTryFrom(split(r.text, "/")[1])]
      [] r.rule = "portp" ->
            [tag |-> "PortProtocol", res |-> parse_portp(split(r.text, "/"))]
      [] r.rule = "proto" ->
            [tag |-> "Protocol", res |-> LineProtocolTryFrom(r.text)]
      [] r.rule = "portsuffpr" ->
            [tag |-> "PortProtocol", res |-> parse_portp(Tail(split(r.text, "/")))]
      [] r.rule = "port" ->
            [tag |-> "Port", res |-> Anyhow(ParseU16(r.text))]
      [] r.rule = "device" ->
            [tag |-> "Device", val |-> r.text]
      [] r.rule = "ondevice" ->
            [tag |-> "Device", val |-> split_whitespace(r.text)[2]]
      [] r.rule = "v6" ->
            [tag |-> "V6"]
      [] r.rule = "action" ->
            [tag |-> "Action",
             modifier |-> ModifierTryFrom(r.inner[1]),
             direction |-> DirectionTryFrom(IF Len(r.inner) >= 2 THEN Some(r.inner[2])
                                            ELSE None)]
      [] r.rule = "cidr" ->
            [tag |-> "CIDR", res |-> parse_cidr(r.text)]
      [] r.rule = "cidrprot" ->
            [tag |-> "CIDRProto",
             cidr |-> Anyhow(ParseU8(r.inner[1])),
             proto |-> LineProtocolTryFrom(r.inner[2])]
      [] r.rule = "EOI" ->
            [tag |-> "END"]
      [] OTHER -> Abort

\* the children try_from unpacks from a ToFrom group
FieldTags == {"Address", "PortProtocol", "CIDR", "Protocol", "CIDRProto", "Port"}

\* The pairs a rule line is made of.  The texts include the ones the
\* conversions of parse_line refuse: an address that is no address, a number
\* that does not fit its type, a prefix above 32, a name that is no protocol.
NoPair == Pair("none", <<>>, <<>>)

IndexTexts == {<<"[", " ", "1", "]">>, <<"[", "6", "5", "5", "3", "6", "]">>}

CidrTexts == {<<"3", "3">>, <<"2", "5", "6">>}

ProtoTexts == {UDP, <<"x">>}

\* pairs inside a tofrom group; v6 stands for a pair of any other rule
ChildPairs ==
    {Pair("address", <<"10.0.0.1">>, <<<<"10.0.0.1">>>>),
     Pair("address", <<"10.0.0.256">>, <<<<"10.0.0.256">>>>),
     Pair("portsuffpr", <<"/", "2", "2", "/", "u", "d", "p">>, <<>>),
     Pair("portsuffpr", <<"/", "2", "2">>, <<>>),
     Pair("portsuffpr", <<"/", "6", "5", "5", "3", "6">>, <<>>),
     Pair("cidr", <<"2", "4">>, <<>>),
     Pair("cidr", <<"3", "3">>, <<>>),
     Pair("proto", UDP, <<>>),
     Pair("proto", <<"x">>, <<>>),
     Pair("port", <<"6", "5", "5", "3", "6">>, <<>>),
     Pair("v6", <<"(", "v", "6", ")">>, <<>>)}
    \cup {Pair("cidrprot", <<"/">> \o c \o <<"/">> \o p, <<c, p>>) :
            c \in CidrTexts, p \in ProtoTexts}

\* pairs at the top level of a line, tofrom apart
TopPairs ==
    {Pair("index", s, <<>>) : s \in IndexTexts}
    \cup {Pair("ondevice", <<"o", "n", " ", "t", "u", "n", "0">>, <<>>),
          Pair("v6", <<"(", "v", "6", ")">>, <<>>),
          Pair("EOI", <<>>, <<>>)}
    \cup {Pair("action", m \o <<" ">> \o d, <<m, d>>) :
            m \in {<<"A", "L", "L", "O", "W">>, <<"x">>},
            d \in {<<"I", "N">>, <<"x">>}}

\* Element values a ToFrom group may hold
Children == {parse_line(r) : r \in ChildPairs}

\* Element values at the top level of a line, ToFrom apart
Elements == {parse_line(r) : r \in TopPairs} \ {Abort}

\* impl From<(Option<IpAddr>, Option<u16>, Option<u8>, Option<Protocol>)> for Address
Address(v) ==
    LET addr == IF v[1] = None /\ v[2] # None THEN Some("0.0.0.0") ELSE v[1]
    IN  [addr |-> addr, cidr |-> v[3], port |-> v[2],
         protocol |-> IF v[4] = None THEN "ANY" ELSE v[4][1]]

\* Line::new
Line(i, t, six, act, dev, f) ==
    [index |-> i, to |-> t, v6 |-> six, action |-> act, device |-> dev, from |-> f]

\* A variant of the inner match that unpacks the protocol of a CIDRProto
\* before its prefix.
UnpackProtoFirst(child, acc) ==
    CASE child.tag = "Address" ->
            IF child.res.ok THEN Ok(<<Some(child.res.val), acc[2], acc[3], acc[4]>>)
            ELSE child.res
      [] child.tag = "PortProtocol" ->
            IF child.res.ok
            THEN Ok(<<acc[1], Some(child.res.val[1]), acc[3], Some(child.res.val[2])>>)
            ELSE child.res
      [] child.tag = "CIDR" ->
            IF child.res.ok THEN Ok(<<acc[1], acc[2], Some(child.res.val), acc[4]>>)
            ELSE child.res
      [] child.tag = "Protocol" ->
            IF child.res.ok THEN Ok(<<acc[1], acc[2], acc[3], Some(child.res.val)>>)
            ELSE child.res
      [] child.tag = "CIDRProto" ->
            IF ~child.proto.ok THEN child.proto
            ELSE IF ~child.cidr.ok THEN child.cidr
            ELSE Ok(<<acc[1], acc[2], Some(child.cidr.val), Some(child.proto.val)>>)
      [] child.tag = "Port" ->
            IF child.res.ok THEN Ok(<<acc[1], Some(child.res.val), acc[3], acc[4]>>)
            ELSE child.res
      [] OTHER -> Panicked

\* numbered.rs:186-231, the inner match on an accumulator (addr, port, cidr,
\* proto): the accumulator with the child's fields written, the child's first
\* error, or the panic of unimplemented!
Unpack(child, acc) ==
    CASE child.tag = "Address" ->
            IF child.res.ok THEN Ok(<<Some(child.res.val), acc[2], acc[3], acc[4]>>)
            ELSE child.res
      [] child.tag = "PortProtocol" ->
            IF child.res.ok
            THEN Ok(<<acc[1], Some(child.res.val[1]), acc[3], Some(child.res.val[2])>>)
            ELSE child.res
      [] child.tag = "CIDR" ->
            IF child.res.ok THEN Ok(<<acc[1], acc[2], Some(child.res.val), acc[4]>>)
            ELSE child.res
      [] child.tag = "Protocol" ->
            IF child.res.ok THEN Ok(<<acc[1], acc[2], acc[3], Some(child.res.val)>>)
            ELSE child.res
      [] child.tag = "CIDRProto" ->
            IF ~child.cidr.ok THEN child.cidr
            ELSE IF ~child.proto.ok THEN child.proto
            ELSE Ok(<<acc[1], acc[2], Some(child.cidr.val), Some(child.proto.val)>>)
      [] child.tag = "Port" ->
            IF child.res.ok THEN Ok(<<acc[1], Some(child.res.val), acc[3], acc[4]>>)
            ELSE child.res
      [] OTHER -> Panicked

\* A variant in which an Action leaves the routing as it is.
ToblockAfterDeviceOnly(el, tb) ==
    IF el.tag \in {"Device", "V6"} THEN FALSE ELSE tb

\* the value of toblock after the arm of a top-level element has run
ToblockAfter(el, tb) ==
    IF el.tag \in {"Device", "V6", "Action"} THEN FALSE ELSE tb

InitLine ==
    /\ e = NoElement
    /\ x = NoElement
    /\ toblock = TRUE
    /\ index = 0
    /\ to = <<None, None, None, None>>
    /\ action = [tag |-> "V6"]
    /\ v6 = FALSE
    /\ device = <<>>
    /\ from = <<None, None, None, None>>
    /\ line = Running
    /\ lpc = "loop"
    /\ nes = 0
    /\ nval = 0
    /\ pair = NoPair

(***************************************************************************)
(* ufw.rs: UfwCommand::version, info, defaults                             *)
(*                                                                         *)
(* The text of a report is a sequence of words, marks and blanks; a word   *)
(* is one symbol.  The words of the model are such that no pattern below   *)
(* matches a part of a word.  The patterns are searched as the regex crate *)
(* searches them: the leftmost match, every repetition greedy.             *)
(***************************************************************************)
Blanks == {" ", "\n"}
Marks == {":", ",", "(", ")", "."}
NumberWords == {"0", "36"}

At(s, i) == IF i \in 1..Len(s) THEN s[i] ELSE ""

\* \w+
IsWord(t) == t # "" /\ t \notin Blanks \cup Marks

\* \s* from position i: the first position that holds no blank
RECURSIVE SkipBlanks(_, _)
SkipBlanks(s, i) == IF At(s, i) \in Blanks THEN SkipBlanks(s, i + 1) ELSE i

\* str::replace(c, "")
RECURSIVE Remove(_, _)
Remove(s, c) ==
    IF s = <<>> THEN <<>>
    ELSE IF Head(s) = c THEN Remove(Tail(s), c)
    ELSE <<Head(s)>> \o Remove(Tail(s), c)

\* str::split(sep) for a separator of several symbols
RECURSIVE split_str(_, _)
split_str(s, sep) ==
    LET M == {i \in 1..(Len(s) - Len(sep) + 1) : SubSeq(s, i, i + Len(sep) - 1) = sep}
    IN  IF M = {} THEN <<s>>
        ELSE <<SubSeq(s, 1, First(M) - 1)>>
             \o split_str(SubSeq(s, First(M) + Len(sep), Len(s)), sep)

\* str::to_ascii_lowercase on the words of the model
to_ascii_lowercase(w) ==
    CASE w = "DENY" -> "deny"
      [] w = "Default" -> "default"
      [] w = "Status" -> "status"
      [] w = "Logging" -> "logging"
      [] OTHER -> w

\* str::from_utf8 of captured bytes
from_utf8(b) == IF b.valid THEN Ok(b.text) ELSE [ok |-> FALSE, err |-> "Utf8Error"]

\* io::Error::new(kind, message)
IoError(kind, m) == [ok |-> FALSE, err |-> "io::Error", kind |-> kind, msg |-> m]

NotCalled == [ok |-> FALSE, err |-> "not called"]

\* r"ufw (\d+\.\d+(?:\.\d+)?)": group 1 of the leftmost match
VersionCaptures(s) ==
    LET M == {i \in 1..Len(s) :
                /\ At(s, i) = "ufw" /\ At(s, i + 1) = " "
                /\ At(s, i + 2) \in NumberWords /\ At(s, i + 3) = "."
                /\ At(s, i + 4) \in NumberWords}
    IN  IF M = {} THEN None
        ELSE IF At(s, First(M) + 5) = "." /\ At(s, First(M) + 6) \in NumberWords
        THEN Some(SubSeq(s, First(M) + 2, First(M) + 6))
        ELSE Some(SubSeq(s, First(M) + 2, First(M) + 4))

\* r"Status:\s*((:?in)?active)": group 1 of the leftmost match
StatusCaptures(s) ==
    LET M == {i \in 1..Len(s) :
                /\ At(s, i) = "Status" /\ At(s, i + 1) = ":"
                /\ At(s, SkipBlanks(s, i + 2)) \in {"active", "inactive"}}
    IN  IF M = {} THEN None
        ELSE Some(<<At(s, SkipBlanks(s, First(M) + 2))>>)

\* r"Logging:\s*(on|off)\s*(:?\((\w+)\))?": groups 1 and 2 of the leftmost
\* match; group 2 takes no part in the match when no bracket follows
LoggingCaptures(s) ==
    LET M == {i \in 1..Len(s) :
                /\ At(s, i) = "Logging" /\ At(s, i + 1) = ":"
                /\ At(s, SkipBlanks(s, i + 2)) \in {"on", "off"}}
    IN  IF M = {} THEN None
        ELSE LET j == SkipBlanks(s, First(M) + 2)
                 k == SkipBlanks(s, j + 1)
                 c == IF At(s, k) = ":" THEN k + 1 ELSE k
             IN  Some([state |-> Some(<<At(s, j)>>),
                       level |-> IF /\ At(s, c) = "(" /\ IsWord(At(s, c + 1))
                                    /\ At(s, c + 2) = ")"
                                 THEN Some(SubSeq(s, k, c + 2)) ELSE None])

\* r"^Default:\s*.+" on one line
DefaultsRegexIsMatch(l) ==
    At(l, 1) = "Default" /\ At(l, 2) = ":" /\ Len(l) >= 3

\* r"(\w+)\s+\((\w+)\)": groups 1 and 2 of the leftmost match
SingleDefaultCaptures(c) ==
    LET M == {i \in 1..Len(c) :
                /\ IsWord(At(c, i)) /\ At(c, i + 1) \in Blanks
                /\ At(c, SkipBlanks(c, i + 1)) = "("
                /\ IsWord(At(c, SkipBlanks(c, i + 1) + 1))
                /\ At(c, SkipBlanks(c, i + 1) + 2) = ")"}
    IN  IF M = {} THEN None
        ELSE Some([rule_type |-> Some(At(c, First(M))),
                   rule_direction |-> Some(At(c, SkipBlanks(c, First(M) + 1) + 1))])

\* impl TryFrom<&str> for RuleDirectionDefaults
RuleDirectionDefaultsTryFrom(value) ==
    CASE to_ascii_lowercase(value) = "incoming" -> Ok("INCOMING")
      [] to_ascii_lowercase(value) = "outgoing" -> Ok("OUTGOING")
      [] to_ascii_lowercase(value) = "routed" -> Ok("ROUTED")
      [] OTHER -> Err("WrongRuleDirection", value)

\* impl TryFrom<&str> for RuleType
RuleTypeTryFrom(value) ==
    CASE to_ascii_lowercase(value) = "allow" -> Ok("ALLOW")
      [] to_ascii_lowercase(value) = "deny" -> Ok("DENY")
      [] to_ascii_lowercase(value) = "reject" -> Ok("REJECT")
      [] to_ascii_lowercase(value) = "limit" -> Ok("LIMIT")
      [] OTHER -> Err("WrongRuleType", value)

\* impl TryFrom<(&str, &str)> for LoggingLevel
LoggingLevelTryFrom(onoff, level) ==
    IF onoff = <<"on">>
    THEN CASE level = <<"low">> -> Ok("Low")
           [] level = <<"medium">> -> Ok("Medium")
           [] level = <<"high">> -> Ok("High")
           [] level = <<"full">> -> Ok("Full")
           [] OTHER -> Err("InvalidLoggingLevel", level)
    ELSE IF onoff = <<"off">> THEN Ok("Off")
    ELSE Err("InvalidLoggingLevel", onoff)

\* UfwCommand::version on a captured output
version(o) ==
    IF ~o.spawned THEN IoError("spawn", <<>>)
    ELSE IF o.success
    THEN IF ~from_utf8(o.stdout).ok THEN IoError("Other", "Utf8Error")
         ELSE LET captures == VersionCaptures(o.stdout.text)
              IN  IF captures = None THEN IoError("InvalidInput", o.stdout.text)
                  ELSE Ok(captures[1])
    ELSE IoError("Other", <<"ufw execution unsuccessful", from_utf8(o.stderr)>>)

\* UfwCommand::info on a captured output
info(o) ==
    IF ~o.spawned THEN Err("IOError", "spawn")
    ELSE IF o.success
    THEN IF ~from_utf8(o.stdout).ok THEN Err("IOError", "Utf8Error")
         ELSE LET status == StatusCaptures(o.stdout.text)
                  captures == LoggingCaptures(o.stdout.text)
              IN  IF status = None THEN Err("IOError", o.stdout.text)
                  ELSE IF captures = None THEN Err("InvalidLoggingLevel", o.stdout.text)
                  ELSE IF captures[1].state # None /\ captures[1].level # None
                  THEN LET level == Remove(Remove(captures[1].level[1], "("), ")")
                           logging_level == LoggingLevelTryFrom(captures[1].state[1], level)
                       IN  IF logging_level.ok
                           THEN Ok(<<status[1] = <<"active">>, logging_level.val>>)
                           ELSE logging_level
                  ELSE Err("InvalidLoggingLevel", o.stdout.text)
    ELSE Err("IOError", <<"ufw execution unsuccessful", from_utf8(o.stderr)>>)

\* ufw.rs:438-454, the closure applied to one clause of a Default line:
\* the pair of results, or Abort when captures(x).unwrap() panics
DefaultOfClause(c, l) ==
    LET default == SingleDefaultCaptures(c)
    IN  IF default = None THEN Abort
        ELSE IF default[1].rule_direction # None /\ default[1].rule_type # None
        THEN <<RuleDirectionDefaultsTryFrom(default[1].rule_direction[1]),
               RuleTypeTryFrom(default[1].rule_type[1])>>
        ELSE <<Err("WrongRuleDirection", l), Err("WrongRuleDirection", l)>>

\* ufw.rs:431-455, the pairs of one Default line
DefaultsOfLine(l) ==
    LET pieces == split_str(l, <<":", " ">>)
        clauses == split_str(pieces[Len(pieces)], <<",", " ">>)
    IN  [k \in 1..Len(clauses) |-> DefaultOfClause(clauses[k], l)]

\* ufw.rs:429-430, the lines the defaults pattern matches
RECURSIVE DefaultLines(_)
DefaultLines(ls) ==
    IF ls = <<>> THEN <<>>
    ELSE IF DefaultsRegexIsMatch(Head(ls)) THEN <<Head(ls)>> \o DefaultLines(Tail(ls))
    ELSE DefaultLines(Tail(ls))

\* UfwCommand::defaults on a captured output
defaults(o) ==
    IF ~o.spawned THEN Err("IOError", "spawn")
    ELSE IF o.success
    THEN IF ~from_utf8(o.stdout).ok THEN Err("IOError", "Utf8Error")
         ELSE LET ls == DefaultLines(split(o.stdout.text, "\n"))
                  pairs == flatten([k \in 1..Len(ls) |-> DefaultsOfLine(ls[k])])
              IN  IF \E k \in 1..Len(pairs) : pairs[k] = Abort THEN Panicked
                  ELSE Ok(pairs)
    ELSE Err("InvalidDefaults", <<from_utf8(o.stdout), from_utf8(o.stderr)>>)

\* the lines a report is written from
ReportLines ==
    {<<"ufw", " ", "0", ".", "36">>,
     <<"Status", ":", " ", "active">>,
     <<"Status", ":", " ", "inactive">>,
     <<"Logging", ":", " ", "on", " ", "(", "low", ")">>,
     <<"Logging", ":", " ", "on", " ", "(", "medium", ")">>,
     <<"Logging", ":", " ", "on", " ", "(", "high", ")">>,
     <<"Logging", ":", " ", "on", " ", "(", "full", ")">>,
     <<"Logging", ":", " ", "on", " ", "(", "bogus", ")">>,
     <<"Logging", ":", " ", "off">>,
     <<"Default", ":", " ", "DENY", " ", "(", "incoming", ")", ",", " ",
       "allow", " ", "(", "outgoing", ")", ",", " ", "disabled", " ", "(", "routed", ")">>,
     <<"Default", ":", " ", "deny", " ", "(", "incoming", ")", ",", " ", "bogus", ",", " ",
       "allow", " ", "(", "sideways", ")">>}

\* how a run of the tool ends: it could not be started, it exited with a
\* non-zero status, it exited with zero; stdout may hold bytes that are no
\* UTF-8
Exits == [spawned : {TRUE}, success : BOOLEAN, valid : BOOLEAN]
         \cup {[spawned |-> FALSE, success |-> FALSE, valid |-> TRUE]}

InitReport ==
    /\ output = [spawned |-> TRUE, success |-> TRUE,
                 stdout |-> [valid |-> TRUE, text |-> <<>>],
                 stderr |-> [valid |-> TRUE, text |-> <<>>]]
    /\ version_result = NotCalled
    /\ info_result = NotCalled
    /\ defaults_result = NotCalled
    /\ rpc = "write"

(***************************************************************************)
(* ufw.rs: Address                                                         *)
(*                                                                         *)
(* An address text is a sequence of symbols: an address literal is one     *)
(* symbol, every other symbol is one character.                            *)
(***************************************************************************)
\* impl From<IpAddr> for Address
UfwAddressFrom(ip) == [addr |-> ip, cidr |-> 32]

\* str::rfind(c)
rfind(s, c) ==
    IF Chars(s, c) = {} THEN None
    ELSE Some(CHOOSE i \in Chars(s, c) : \A j \in Chars(s, c) : j <= i)

\* impl TryFrom<&str> for Address (ufw.rs)
UfwAddressTryFrom(s) ==
    IF rfind(s, "/") = None
    THEN LET ip == Anyhow(IpAddrFromStr(s))
         IN  IF ip.ok THEN Ok(UfwAddressFrom(ip.val)) ELSE ip
    ELSE LET pos == rfind(s, "/")[1]
             ip == Anyhow(IpAddrFromStr(SubSeq(s, 1, pos - 1)))
             cidr == Anyhow(ParseU8(SubSeq(s, pos + 1, Len(s))))
         IN  IF ~ip.ok THEN ip
             ELSE IF ~cidr.ok THEN cidr
             ELSE Ok([addr |-> ip.val, cidr |-> cidr.val])

AddressFragments ==
    {<<"10.0.0.1">>, <<"::1">>, <<"x">>, <<"/">>, <<"2", "4">>, <<"1", "2", "8">>,
     <<"3", "0", "0">>}

InitAddress ==
    /\ addr_text = <<>>
    /\ addr_nfrags = 0
    /\ address_result = NotCalled

(***************************************************************************)
(* ufw.rs: Ufw, the staged rule set                                        *)
(***************************************************************************)
\* the rule entries of the model, told apart by their number
RuleEntries == [number : 1..3]

NoCall == [op |-> "none"]

InitStaged ==
    /\ ufw_entries = <<>>
    /\ ucall = NoCall

Init == InitPorts /\ InitProfile /\ InitLine /\ InitReport /\ InitAddress /\ InitStaged

\* numbered.rs:282-283: the grammar refuses the line and parse returns the
\* error of AddressParser::parse
ParseRejects ==
    /\ lpc = "loop" /\ nes = 0
    /\ line' = AnyErr("pest")
    /\ lpc' = "done"
    /\ UNCHANGED <<e, x, toblock, index, to, action, v6, device, from, nes, nval, pair>>
    /\ UNCHANGED <<portsVars, profileVars, ufwVars>>

\* numbered.rs:284-288: parse maps every pair before Line::try_from starts,
\* so a pair on which parse_line panics ends the call whatever else the line
\* holds
ParseLinePanics(p) ==
    /\ lpc = "loop" /\ nes = 0
    /\ parse_line(p) = Abort
    /\ pair' = p
    /\ line' = Panicked
    /\ lpc' = "done"
    /\ UNCHANGED <<e, x, toblock, index, to, action, v6, device, from, nes, nval>>
    /\ UNCHANGED <<portsVars, profileVars, ufwVars>>

\* numbered.rs:181-183
ElemIndex(p) ==
    LET el == parse_line(p) IN
    /\ lpc = "loop" /\ nes < MaxElems
    /\ pair' = p
    /\ el.tag = "Index"
    /\ e' = el /\ nes' = nes + 1
    /\ index' = el.val
    /\ toblock' = ToblockAfter(el, toblock)
    /\ UNCHANGED <<x, to, action, v6, device, from, line, lpc, nval>>
    /\ UNCHANGED <<portsVars, profileVars, ufwVars>>

\* numbered.rs:184-185: the outer loop reaches a ToFrom group
ElemToFrom ==
    /\ lpc = "loop" /\ nes < MaxElems
    /\ e' = [tag |-> "ToFrom"] /\ nes' = nes + 1
    /\ lpc' = "tofrom"
    /\ nval' = 0
    /\ UNCHANGED <<x, toblock, index, to, action, v6, device, from, line, pair>>
    /\ UNCHANGED <<portsVars, profileVars, ufwVars>>

\* numbered.rs:185-231: one child of the group
ToFromChild(p) ==
    LET child == parse_line(p) IN
    /\ lpc = "tofrom" /\ nval < MaxChildren
    /\ pair' = p
    /\ x' = child /\ nval' = nval + 1
    /\ LET r == Unpack(child, IF toblock THEN to ELSE from)
       IN  IF r.ok
           THEN /\ to' = IF toblock THEN r.val ELSE to
                /\ from' = IF toblock THEN from ELSE r.val
                /\ UNCHANGED <<line, lpc>>
           ELSE /\ line' = r
                /\ lpc' = "done"
                /\ UNCHANGED <<to, from>>
    /\ UNCHANGED <<e, toblock, index, action, v6, device, nes>>
    /\ UNCHANGED <<portsVars, profileVars, ufwVars>>

\* numbered.rs:185,232: the group has no more children
ToFromEnd ==
    /\ lpc = "tofrom"
    /\ lpc' = "loop"
    /\ UNCHANGED <<e, x, toblock, index, to, action, v6, device, from, line, nes, nval, pair>>
    /\ UNCHANGED <<portsVars, profileVars, ufwVars>>

\* numbered.rs:235-238
ElemDevice(p) ==
    LET el == parse_line(p) IN
    /\ lpc = "loop" /\ nes < MaxElems
    /\ pair' = p
    /\ el.tag = "Device"
    /\ e' = el /\ nes' = nes + 1
    /\ device' = el.val
    /\ toblock' = ToblockAfter(el, toblock)
    /\ UNCHANGED <<x, index, to, action, v6, from, line, lpc, nval>>
    /\ UNCHANGED <<portsVars, profileVars, ufwVars>>

\* numbered.rs:239-242
ElemV6(p) ==
    LET el == parse_line(p) IN
    /\ lpc = "loop" /\ nes < MaxElems
    /\ pair' = p
    /\ el.tag = "V6"
    /\ e' = el /\ nes' = nes + 1
    /\ v6' = TRUE
    /\ toblock' = ToblockAfter(el, toblock)
    /\ UNCHANGED <<x, index, to, action, device, from, line, lpc, nval>>
    /\ UNCHANGED <<portsVars, profileVars, ufwVars>>

\* numbered.rs:243-246: the modifier is unpacked before the direction
ElemAction(p) ==
    LET el == parse_line(p) IN
    /\ lpc = "loop" /\ nes < MaxElems
    /\ pair' = p
    /\ el.tag = "Action"
    /\ e' = el /\ nes' = nes + 1
    /\ IF ~el.modifier.ok
       THEN line' = el.modifier /\ lpc' = "done" /\ UNCHANGED <<action, toblock>>
       ELSE IF ~el.direction.ok
       THEN line' = el.direction /\ lpc' = "done" /\ UNCHANGED <<action, toblock>>
       ELSE /\ action' = el
            /\ toblock' = ToblockAfter(el, toblock)
            /\ UNCHANGED <<line, lpc>>
    /\ UNCHANGED <<x, index, to, v6, device, from, nval>>
    /\ UNCHANGED <<portsVars, profileVars, ufwVars>>

\* numbered.rs:234,247-250: the arms that do nothing
ElemOther(p) ==
    LET el == parse_line(p) IN
    /\ lpc = "loop" /\ nes < MaxElems
    /\ pair' = p
    /\ el.tag \in {"Port", "CIDR", "END"}
    /\ e' = el /\ nes' = nes + 1
    /\ toblock' = ToblockAfter(el, toblock)
    /\ UNCHANGED <<x, index, to, action, v6, device, from, line, lpc, nval>>
    /\ UNCHANGED <<portsVars, profileVars, ufwVars>>

\* numbered.rs:254-259: the vector is exhausted
LineEnd ==
    /\ lpc = "loop"
    /\ line' = Ok(Line(index, Address(to), v6, action, Some(device), Address(from)))
    /\ lpc' = "done"
    /\ UNCHANGED <<e, x, toblock, index, to, action, v6, device, from, nes, nval, pair>>
    /\ UNCHANGED <<portsVars, profileVars, ufwVars>>

NextLine ==
    \/ ParseRejects
    \/ \E p \in TopPairs : ParseLinePanics(p)
    \/ \E p \in TopPairs : ElemIndex(p)
    \/ ElemToFrom
    \/ \E p \in ChildPairs : ToFromChild(p)
    \/ ToFromEnd
    \/ \E p \in TopPairs : ElemDevice(p)
    \/ \E p \in TopPairs : ElemV6(p)
    \/ \E p \in TopPairs : ElemAction(p)
    \/ \E p \in TopPairs : ElemOther(p)
    \/ LineEnd

(***************************************************************************)
(* Actions of the report extractors, the address conversion and the staged *)
(* rule set.                                                               *)
(***************************************************************************)
\* the tool writes one more line of its report
WriteLine(l) ==
    /\ rpc = "write"
    /\ Cardinality(Chars(output.stdout.text, "\n")) < MaxLines
    /\ output' = [output EXCEPT !.stdout.text = @ \o l \o <<"\n">>]
    /\ UNCHANGED <<version_result, info_result, defaults_result, rpc>>
    /\ UNCHANGED <<portsVars, profileVars, lineVars, addressVars, stagedVars>>

\* ufw.rs:462-466, exec returns: the run of the tool has ended
Exec(st) ==
    /\ rpc = "write"
    /\ output' = [spawned |-> st.spawned, success |-> st.success,
                  stdout |-> [valid |-> st.valid, text |-> output.stdout.text],
                  stderr |-> [valid |-> TRUE,
                              text |-> IF st.success THEN <<>> ELSE <<"ERROR">>]]
    /\ rpc' = "exited"
    /\ UNCHANGED <<version_result, info_result, defaults_result>>
    /\ UNCHANGED <<portsVars, profileVars, lineVars, addressVars, stagedVars>>

\* ufw.rs:323-350
Version ==
    /\ rpc = "exited" /\ version_result = NotCalled
    /\ version_result' = version(output)
    /\ UNCHANGED <<output, info_result, defaults_result, rpc>>
    /\ UNCHANGED <<portsVars, profileVars, lineVars, addressVars, stagedVars>>

\* ufw.rs:352-410
Info ==
    /\ rpc = "exited" /\ info_result = NotCalled
    /\ info_result' = info(output)
    /\ UNCHANGED <<output, version_result, defaults_result, rpc>>
    /\ UNCHANGED <<portsVars, profileVars, lineVars, addressVars, stagedVars>>

\* ufw.rs:412-460
Defaults ==
    /\ rpc = "exited" /\ defaults_result = NotCalled
    /\ defaults_result' = defaults(output)
    /\ UNCHANGED <<output, version_result, info_result, rpc>>
    /\ UNCHANGED <<portsVars, profileVars, lineVars, addressVars, stagedVars>>

NextReport ==
    \/ \E l \in ReportLines : WriteLine(l)
    \/ \E st \in Exits : Exec(st)
    \/ Version
    \/ Info
    \/ Defaults

\* one more fragment of the address text
WriteAddress(f) ==
    /\ address_result = NotCalled
    /\ addr_nfrags < MaxAddrFrags
    /\ addr_text' = addr_text \o f
    /\ addr_nfrags' = addr_nfrags + 1
    /\ UNCHANGED address_result
    /\ UNCHANGED <<portsVars, profileVars, lineVars, reportVars, stagedVars>>

\* ufw.rs:77-91
AddressTryFrom ==
    /\ address_result = NotCalled
    /\ address_result' = UfwAddressTryFrom(addr_text)
    /\ UNCHANGED <<addr_text, addr_nfrags>>
    /\ UNCHANGED <<portsVars, profileVars, lineVars, reportVars, stagedVars>>

NextAddress ==
    \/ \E f \in AddressFragments : WriteAddress(f)
    \/ AddressTryFrom

\* ufw.rs:241-243
add_rule(entry) ==
    /\ ~(ucall.op = "delete_rule" /\ ucall.ret = Panicked)
    /\ Len(ufw_entries) < MaxRules
    /\ ufw_entries' = Append(ufw_entries, <<entry, TRUE>>)
    /\ ucall' = [op |-> "add_rule", arg |-> entry]
    /\ UNCHANGED <<portsVars, profileVars, lineVars, reportVars, addressVars>>

\* ufw.rs:245-251: the guard compares with >, so the index equal to the
\* number of entries reaches Vec::remove, which panics on it
delete_rule(entry_index) ==
    /\ ~(ucall.op = "delete_rule" /\ ucall.ret = Panicked)
    /\ IF entry_index > Len(ufw_entries) % (U16Max + 1)
       THEN /\ ucall' = [op |-> "delete_rule", arg |-> entry_index, ret |-> Ok(None)]
            /\ UNCHANGED ufw_entries
       ELSE IF entry_index >= Len(ufw_entries)
       THEN /\ ucall' = [op |-> "delete_rule", arg |-> entry_index, ret |-> Panicked]
            /\ UNCHANGED ufw_entries
       ELSE /\ ucall' = [op |-> "delete_rule", arg |-> entry_index,
                         ret |-> Ok(Some(ufw_entries[entry_index + 1]))]
            /\ ufw_entries' = SubSeq(ufw_entries, 1, entry_index)
                              \o SubSeq(ufw_entries, entry_index + 2, Len(ufw_entries))
    /\ UNCHANGED <<portsVars, profileVars, lineVars, reportVars, addressVars>>

NextStaged ==
    \/ \E entry \in RuleEntries : add_rule(entry)
    \/ \E entry_index \in 0..(MaxRules + 1) : delete_rule(entry_index)

Next ==
    \/ \E f \in Fragments : WriteFragment(f)
    \/ ParsePorts

Spec == Init /\ [][Next]_vars

SpecProfile == Init /\ [][NextProfile]_vars

SpecLine == Init /\ [][NextLine]_vars

SpecReport == Init /\ [][NextReport]_vars

SpecAddress == Init /\ [][NextAddress]_vars

SpecStaged == Init /\ [][NextStaged]_vars

(***************************************************************************)
(* Reading a ports value by position, independently of split: the items    *)
(* of the value, where each starts and ends, and the chunk each lies in.   *)
(***************************************************************************)
results == ports_result.val

\* position i lies in the item list of its chunk: no '/' of the same chunk
\* stands before it
InItems(t, i) ==
    \A j \in 1..(i - 1) : t[j] = "/" => \E k \in (j + 1)..(i - 1) : t[k] = "|"

\* the positions that end one item and start the next
Separators(t) ==
    {i \in 1..Len(t) : t[i] = "|" \/ (t[i] = "," /\ InItems(t, i))}

ItemCount(t) == 1 + Cardinality(Separators(t))

ItemStart(t, k) ==
    IF k = 1 THEN 1
    ELSE 1 + CHOOSE i \in Separators(t) :
                 Cardinality({j \in Separators(t) : j < i}) = k - 2

ItemEnd(t, k) ==
    LET stops == {j \in ItemStart(t, k)..Len(t) : t[j] \in {",", "|", "/"}}
    IN  IF stops = {} THEN Len(t) + 1 ELSE First(stops)

ItemText(t, k) == SubSeq(t, ItemStart(t, k), ItemEnd(t, k) - 1)

ReplaceItem(t, k, new) ==
    SubSeq(t, 1, ItemStart(t, k) - 1) \o new \o SubSeq(t, ItemEnd(t, k), Len(t))

\* the '|'-separated chunk that holds item k
ChunkOfItem(t, k) ==
    LET before == {j \in Chars(t, "|") : j < ItemStart(t, k)}
        after == {j \in Chars(t, "|") : j >= ItemStart(t, k)}
        lo == IF before = {} THEN 1
              ELSE 1 + CHOOSE j \in before : \A i \in before : i <= j
        hi == IF after = {} THEN Len(t) ELSE First(after) - 1
    IN  SubSeq(t, lo, hi)

EndsWith(c, suffix) ==
    /\ Len(c) >= Len(suffix)
    /\ SubSeq(c, Len(c) - Len(suffix) + 1, Len(c)) = suffix

\* a decimal numeral: digits, after at most one leading '+'
IsNumeric(p) ==
    LET d == IF p # <<>> /\ Head(p) = "+" THEN Tail(p) ELSE p
    IN  d # <<>> /\ \A i \in 1..Len(d) : d[i] \in Digits

\* the value of a numeral, saturated just above the largest port
RECURSIVE DecValue(_)
DecValue(p) ==
    IF p = <<>> \/ p = <<"+">> THEN 0
    ELSE LET front == DecValue(SubSeq(p, 1, Len(p) - 1))
             v == 10 * front + DigitVal(p[Len(p)])
         IN  IF v > U16Max THEN U16Max + 1 ELSE v

IsPort(p) == IsNumeric(p) /\ DecValue(p) <= U16Max

(***************************************************************************)
(* C1: the ports vector holds one result per comma-separated item of every *)
(* '|'-separated entry, in text order; an item that fails is an Err at its *)
(* own position and leaves the number and the values of the other results  *)
(* as they are (replacing any one item by a failing or by a valid item     *)
(* changes the result at that position only).                              *)
(***************************************************************************)
PortsOneResultPerItem ==
    pc = "done" =>
        /\ ports_result.ok
        /\ Len(results) = ItemCount(text)
        /\ \A k \in 1..ItemCount(text) :
               LET bad == PortsOf(ReplaceItem(text, k, <<"x">>))
                   good == PortsOf(ReplaceItem(text, k, <<"7">>))
               IN  /\ Len(bad) = Len(results)
                   /\ Len(good) = Len(results)
                   /\ ~bad[k].ok
                   /\ good[k].ok /\ good[k].val.number = 7
                   /\ \A j \in 1..Len(results) :
                          j # k => bad[j] = results[j] /\ good[j] = results[j]

\* a failing item stands before a parsed one of the same entry, and a
\* second entry follows
PortsOneResultPerItemWitness ==
    /\ pc = "done"
    /\ ports_result.ok
    /\ contains(text, "|")
    /\ contains(ChunkOfItem(text, 1), ",")
    /\ Len(results) >= 3
    /\ ~results[1].ok
    /\ results[2].ok

(***************************************************************************)
(* C2: every parsed item of an entry `items/tcp` has protocols exactly     *)
(* {TCP}, of an entry `items/udp` exactly {UDP}, of an entry without '/'   *)
(* exactly {TCP, UDP}, whatever the suffixes of the other entries are.     *)
(***************************************************************************)
PortsProtocolOfEntry ==
    pc = "done" =>
        \A k \in 1..Len(results) :
            LET c == ChunkOfItem(text, k)
                n == Cardinality(Chars(c, "/"))
            IN  results[k].ok =>
                    /\ n = 0 => results[k].val.protocols = <<Ok("TCP"), Ok("UDP")>>
                    /\ n = 1 /\ EndsWith(c, <<"/">> \o TCP)
                           => results[k].val.protocols = <<Ok("TCP")>>
                    /\ n = 1 /\ EndsWith(c, <<"/">> \o UDP)
                           => results[k].val.protocols = <<Ok("UDP")>>

\* an entry with a suffix next to an entry without one
PortsProtocolOfEntryWitness ==
    /\ pc = "done"
    /\ ports_result.ok
    /\ Len(results) = 2
    /\ EndsWith(ChunkOfItem(text, 1), <<"/">> \o UDP)
    /\ ~contains(ChunkOfItem(text, 2), "/")
    /\ results[1].ok /\ results[1].val.protocols = <<Ok("UDP")>>
    /\ results[2].ok /\ results[2].val.protocols = <<Ok("TCP"), Ok("UDP")>>

(***************************************************************************)
(* C3: a single-port item that is a numeral of value at most 65535 parses  *)
(* to a port with that number and no end number; any other single-port     *)
(* item (not a numeral, or a numeral above 65535) is the error             *)
(* PortNotANumber.  A numeral is a run of decimal digits, which            *)
(* str::parse::<u16> also accepts after one leading '+'.                   *)
(***************************************************************************)
PortsSinglePort ==
    pc = "done" =>
        \A k \in 1..ItemCount(text) :
            LET p == ItemText(text, k)
            IN  ~contains(p, ":") =>
                    IF IsPort(p)
                    THEN /\ results[k].ok
                         /\ results[k].val.number = DecValue(p)
                         /\ results[k].val.end_number = None
                    ELSE /\ ~results[k].ok
                         /\ results[k].err = "PortNotANumber"

\* the largest port next to the first number that is too large
PortsSinglePortWitness ==
    /\ pc = "done"
    /\ ports_result.ok
    /\ Len(results) = 2
    /\ ItemText(text, 1) = <<"6", "5", "5", "3", "5">>
    /\ ItemText(text, 2) = <<"6", "5", "5", "3", "6">>
    /\ results[1].ok /\ results[1].val.number = U16Max
    /\ ~results[2].ok /\ results[2].err = "PortNotANumber"

(***************************************************************************)
(* C4 as stated: in a chunk with more than one '/', the protocol is the    *)
(* text after the last '/', and the items are the comma-separated pieces   *)
(* of everything before the last '/' (so a piece that holds a '/' is an    *)
(* item, and is no number).                                                *)
(***************************************************************************)
LastSlash(c) == CHOOSE i \in Chars(c, "/") : \A j \in Chars(c, "/") : j <= i

PortsSuffixAfterLastSlash ==
    (pc = "done" /\ ~contains(text, "|") /\ Cardinality(Chars(text, "/")) >= 2) =>
        LET list == SubSeq(text, 1, LastSlash(text) - 1)
            suffix == SubSeq(text, LastSlash(text) + 1, Len(text))
        IN  /\ Len(results) = 1 + Cardinality(Chars(list, ","))
            /\ \A k \in 1..Len(results) :
                   results[k].ok =>
                       /\ results[k].val.protocols = <<ProtocolTryFrom(suffix)>>
                       /\ ~contains(split(list, ",")[k], "/")

(***************************************************************************)
(* C4 amended: the protocol of an entry is the text between the FIRST '/'  *)
(* of the chunk and its second '/' (or its end), the items are the         *)
(* comma-separated pieces before the first '/', and whatever follows a     *)
(* second '/' is ignored.                                                  *)
(***************************************************************************)
PortsSuffixAfterFirstSlash ==
    pc = "done" =>
        /\ Len(results) = ItemCount(text)
        /\ \A k \in 1..Len(results) :
               LET c == ChunkOfItem(text, k)
                   slashes == Chars(c, "/")
                   first == First(slashes)
                   rest == SubSeq(c, first + 1, Len(c))
                   suffix == IF contains(rest, "/")
                             THEN SubSeq(rest, 1, First(Chars(rest, "/")) - 1)
                             ELSE rest
               IN  (results[k].ok /\ slashes # {}) =>
                       results[k].val.protocols = <<ProtocolTryFrom(suffix)>>
        /\ (~contains(text, "|") /\ Cardinality(Chars(text, "/")) >= 2) =>
               LET first == First(Chars(text, "/"))
                   second == First(Chars(text, "/") \ {first})
               IN  results = PortsOf(SubSeq(text, 1, second - 1))

\* a chunk `7/7/tcp`: the item parses and its protocol is the middle text
PortsSuffixAfterFirstSlashWitness ==
    /\ pc = "done"
    /\ ports_result.ok
    /\ ~contains(text, "|")
    /\ Cardinality(Chars(text, "/")) = 2
    /\ EndsWith(text, <<"/">> \o TCP)
    /\ Len(results) = 1
    /\ results[1].ok
    /\ results[1].val.protocols = <<Err("InvalidProtocol", <<"7">>)>>

(***************************************************************************)
(* C5 as stated: a range item with one side of the ':' missing, `A:` or    *)
(* `:B` with A, B port numbers, is the error InvalidPortRange whose        *)
(* message names the missing side.                                         *)
(***************************************************************************)
PortsRangeMissingSide ==
    pc = "done" =>
        \A k \in 1..ItemCount(text) :
            LET p == ItemText(text, k)
                colon == First(Chars(p, ":"))
                before == SubSeq(p, 1, colon - 1)
                after == SubSeq(p, colon + 1, Len(p))
            IN  Cardinality(Chars(p, ":")) = 1 =>
                    /\ (before = <<>> /\ IsPort(after)) =>
                           results[k] = Err("InvalidPortRange",
                               <<"number before colon hasn't been specified">>)
                    /\ (IsPort(before) /\ after = <<>>) =>
                           results[k] = Err("InvalidPortRange",
                               <<"number after colon hasn't been specified">>)

(***************************************************************************)
(* C6 as stated: a chunk with no items before its first separator (the     *)
(* empty chunk, or one that begins with '/') is the error                  *)
(* PortsSectionEmpty, and a ports value that yields zero items makes the   *)
(* profile fail with EmptyPortsSection.                                    *)
(***************************************************************************)
PortsEmptyChunk ==
    pc = "done" =>
        /\ (~contains(text, "|") /\ (text = <<>> \/ Head(text) = "/")) =>
               \/ ports_result = Ok(<<Err("PortsSectionEmpty", <<>>)>>)
               \/ ports_result = Err("EmptyPortsSection", <<>>)
        /\ (ports_result.ok /\ results = <<>>) => FALSE

(***************************************************************************)
(* C7: a range item `A:B` with A and B port numbers parses to number = A   *)
(* and end number = B, for A <= B and for A > B alike.                     *)
(***************************************************************************)
PortsRangeKeepsOrder ==
    pc = "done" =>
        \A k \in 1..ItemCount(text) :
            LET p == ItemText(text, k)
                colon == First(Chars(p, ":"))
                A == SubSeq(p, 1, colon - 1)
                B == SubSeq(p, colon + 1, Len(p))
            IN  (Cardinality(Chars(p, ":")) = 1 /\ IsPort(A) /\ IsPort(B)) =>
                    /\ results[k].ok
                    /\ results[k].val.number = DecValue(A)
                    /\ results[k].val.end_number = Some(DecValue(B))

\* a range whose start is above its end
PortsRangeKeepsOrderWitness ==
    /\ pc = "done"
    /\ ports_result.ok
    /\ Len(results) = 1
    /\ text = <<"6", "5", "5", "3", "5", ":", "7">>
    /\ results[1].ok
    /\ results[1].val.number = U16Max
    /\ results[1].val.end_number = Some(7)

(***************************************************************************)
(* C8: a section without a title (absent or null) is MissingTitle; with a  *)
(* title and without a description exactly MissingDescription; with both   *)
(* and without ports MissingPorts; an entry is produced only when the      *)
(* three keys are present and non-null; and every section of the file has  *)
(* exactly one result among the profile's entries.                         *)
(***************************************************************************)
Missing(values, key) == key \notin DOMAIN values \/ values[key] = <<>>

ProfileEntryResults ==
    /\ \A i \in 1..Len(entries) :
           LET values == sections[entries[i].name]
               res == entries[i].res
           IN  /\ Missing(values, "title") => res = Err("MissingTitle", <<>>)
               /\ (~Missing(values, "title") /\ Missing(values, "description"))
                      => res = Err("MissingDescription", <<>>)
               /\ (~Missing(values, "title") /\ ~Missing(values, "description")
                      /\ Missing(values, "ports"))
                      => res = Err("MissingPorts", <<>>)
               /\ res.ok => /\ \A key \in Keys : ~Missing(values, key)
                            /\ res.val.name = entries[i].name
                            /\ res.val.title = values["title"][1]
                            /\ res.val.description = values["description"][1]
    /\ ppc = "done" =>
           /\ Len(entries) = Len(sections)
           /\ \A k \in DOMAIN sections :
                  Cardinality({i \in 1..Len(entries) : entries[i].name = k}) = 1

\* a file with a section that lacks its description only and a complete one
ProfileEntryResultsWitness ==
    /\ ppc = "done"
    /\ Len(entries) = 2
    /\ \E i, j \in 1..2 :
           /\ entries[i].res = Err("MissingDescription", <<>>)
           /\ "title" \in DOMAIN sections[entries[i].name]
           /\ "description" \notin DOMAIN sections[entries[i].name]
           /\ entries[j].res.ok

(***************************************************************************)
(* Reading a step of the reducer: which loop moved, and what the element   *)
(* it moved to carries.                                                    *)
(***************************************************************************)
ChildStep == nval' = nval + 1
TopStep == nes' = nes + 1

\* the accumulator slots (address, port, cidr, protocol) a field element fills
Slots(child) ==
    CASE child.tag = "Address" -> {1}
      [] child.tag = "Port" -> {2}
      [] child.tag = "PortProtocol" -> {2, 4}
      [] child.tag = "CIDR" -> {3}
      [] child.tag = "CIDRProto" -> {3, 4}
      [] child.tag = "Protocol" -> {4}

\* the value a field element holds for a slot
Field(child, slot) ==
    CASE child.tag = "PortProtocol" -> child.res.val[IF slot = 2 THEN 1 ELSE 2]
      [] child.tag = "CIDRProto" -> IF slot = 3 THEN child.cidr.val ELSE child.proto.val
      [] OTHER -> child.res.val

\* acc becomes new by writing the fields of child, and nothing else
Written(child, acc, new) ==
    \A slot \in 1..4 :
        new[slot] = IF slot \in Slots(child) THEN Some(Field(child, slot)) ELSE acc[slot]

\* the results an element carries, in element order
Carried(el) ==
    CASE el.tag = "CIDRProto" -> <<el.cidr, el.proto>>
      [] el.tag = "Action" -> <<el.modifier, el.direction>>
      [] OTHER -> <<el.res>>

HasError(el) == \E i \in 1..Len(Carried(el)) : ~Carried(el)[i].ok

FirstError(el) ==
    Carried(el)[First({i \in 1..Len(Carried(el)) : ~Carried(el)[i].ok})]

(***************************************************************************)
(* C9: the reducer starts populating the destination; while it does, the   *)
(* fields of every ToFrom child are written to the destination accumulator *)
(* and the source is left alone; a Device, a V6 marker or an Action (with  *)
(* or without a Device before it) switches it to the source, no other      *)
(* element changes the routing, and once it populates the source it never  *)
(* returns to the destination.                                             *)
(***************************************************************************)
ReducerRouting ==
    /\ toblock = TRUE
    /\ [][ /\ (ChildStep /\ x'.tag \in FieldTags /\ line' = Running) =>
                  IF toblock
                  THEN Written(x', to, to') /\ from' = from
                  ELSE Written(x', from, from') /\ to' = to
           /\ (TopStep /\ e'.tag \in {"Device", "V6", "Action"} /\ line' = Running) =>
                  ~toblock'
           /\ ~(TopStep /\ e'.tag \in {"Device", "V6", "Action"}) =>
                  toblock' = toblock
           /\ ~toblock => ~toblock'
         ]_vars

\* a line without Device: address and port for the destination, an Action,
\* then address and port for the source
ReducerRoutingWitness ==
    /\ line.ok
    /\ ~toblock
    /\ device = <<>> /\ ~v6
    /\ action.tag = "Action"
    /\ to[1] # None /\ to[2] # None
    /\ from[1] # None /\ from[2] # None

(***************************************************************************)
(* C10: when a field element routed to an accumulator, or the modifier or  *)
(* direction of an Action, carries an error, the reduction returns the     *)
(* first error of that element and no Rule; what it has returned is final, *)
(* so of several failing fields the first in element order decides.        *)
(***************************************************************************)
ReducerFirstError ==
    [][ /\ (ChildStep /\ x'.tag \in FieldTags /\ HasError(x')) =>
               line' = FirstError(x') /\ lpc' = "done"
        /\ (TopStep /\ e'.tag = "Action" /\ HasError(e')) =>
               line' = FirstError(e') /\ lpc' = "done"
        /\ line # Running => line' = line
        /\ lpc = "done" => UNCHANGED lineVars
      ]_vars

\* a destination address was unpacked, then a CIDRProto whose prefix and
\* protocol both fail: the prefix's error is returned
ReducerFirstErrorWitness ==
    /\ lpc = "done"
    /\ to[1] # None
    /\ x = [tag |-> "CIDRProto",
            cidr |-> AnyErr("number too large to fit in target type"),
            proto |-> AnyErr("unknown protocol")]
    /\ line = AnyErr("number too large to fit in target type")

(***************************************************************************)
(* C11: every CIDR prefix that reaches a produced Rule is at most 32: a    *)
(* line whose destination or source carries a prefix above 32, written     *)
(* alone or together with a protocol, is rejected with an error.           *)
(***************************************************************************)
RulePrefixAtMost32 ==
    line.ok =>
        \A a \in {line.val.to, line.val.from} : a.cidr # None => a.cidr[1] <= 32

(***************************************************************************)
(* C12: one call of the rule-line parse returns exactly one value, a Rule  *)
(* or an error value, and never aborts: a line the grammar refuses, a line *)
(* whose bracketed index does not fit the index type and a line whose      *)
(* to/from group holds an unexpected child all yield an error value.       *)
(***************************************************************************)
ParseReturnsOneValue ==
    /\ line # Panicked
    /\ lpc = "done" => line # Running
    /\ (pair.rule = "index" /\ ~parse_index(pair.text).ok) =>
           lpc = "done" /\ ~line.ok
    /\ (lpc = "done" /\ x.tag \notin FieldTags \cup {"none"}) => ~line.ok

(***************************************************************************)
(* C16: in the rule-line grammar a port suffix written without protocol    *)
(* gives its destination or source the protocol ANY, and a destination or  *)
(* source for which no protocol was unpacked at all ends with protocol ANY *)
(* as well; a protocol that was unpacked is the one the Rule carries.      *)
(***************************************************************************)
NoProtocolWritten(p) ==
    \/ p.rule = "portsuffpr" /\ Cardinality(Chars(p.text, "/")) = 1
    \/ p.rule = "portp" /\ Cardinality(Chars(p.text, "/")) = 0

PortSuffixDefaultsAny ==
    [][ /\ (ChildStep /\ NoProtocolWritten(pair') /\ line' = Running) =>
               /\ x'.tag = "PortProtocol"
               /\ (IF toblock THEN to' ELSE from')[4] = Some("ANY")
        /\ (line'.ok /\ ~line.ok) =>
               /\ line'.val.to.protocol = IF to[4] = None THEN "ANY" ELSE to[4][1]
               /\ line'.val.from.protocol = IF from[4] = None THEN "ANY" ELSE from[4][1]
      ]_vars

\* a destination written with the port suffix "/22" and a source without
\* any protocol: both end with ANY
PortSuffixDefaultsAnyWitness ==
    /\ line.ok
    /\ to[2] = Some(22) /\ to[4] = Some("ANY")
    /\ from[1] # None /\ from[4] = None
    /\ line.val.to.protocol = "ANY"
    /\ line.val.from.protocol = "ANY"

(***************************************************************************)
(* C18: processing a Device element changes only the interface name and    *)
(* the routing state, processing an IPv6Marker changes only the ipv6 flag  *)
(* and the routing state; destination, source, index and action are left   *)
(* unchanged by both.  The resulting Rule has an interface exactly when    *)
(* the line held a Device element: the local device is the empty text      *)
(* until a Device element is processed, and the devices of a line are not  *)
(* empty.                                                                  *)
(***************************************************************************)
DeviceAndMarkerFrame ==
    [][ /\ (TopStep /\ e'.tag = "Device") =>
               /\ device' = e'.val
               /\ UNCHANGED <<to, from, index, action, v6, line>>
        /\ (TopStep /\ e'.tag = "V6") =>
               /\ v6'
               /\ UNCHANGED <<to, from, index, action, device, line>>
        /\ (line'.ok /\ ~line.ok) =>
               /\ device = <<>> => line'.val.device = None
               /\ device # <<>> => line'.val.device = Some(device)
      ]_vars

(***************************************************************************)
(* Reading a report by its lines.                                          *)
(***************************************************************************)
ReportLinesOf(word) ==
    LET ls == split(output.stdout.text, "\n")
    IN  {k \in 1..Len(ls) : ls[k] # <<>> /\ ls[k][1] = word}

ReportLine(k) == split(output.stdout.text, "\n")[k]

\* the tool ran, exited with zero and wrote text
Reported == output.spawned /\ output.success /\ output.stdout.valid

LevelNames == [low |-> "Low", medium |-> "Medium", high |-> "High", full |-> "Full"]

(***************************************************************************)
(* C13: of a report with a Status line and one Logging line, the logging   *)
(* extractor yields the level low, medium, high or full that follows 'on'  *)
(* in brackets, yields Off for 'off' without a bracketed level, and yields *)
(* the error InvalidLoggingLevel for 'on' with any other bracketed name.   *)
(***************************************************************************)
LoggingExtract ==
    (/\ info_result # NotCalled /\ Reported
     /\ ReportLinesOf("Status") # {}
     /\ Cardinality(ReportLinesOf("Logging")) = 1) =>
        LET l == ReportLine(CHOOSE k \in ReportLinesOf("Logging") : TRUE)
        IN  /\ (l[4] = "on" /\ Len(l) = 8 /\ l[7] \in DOMAIN LevelNames) =>
                   info_result.ok /\ info_result.val[2] = LevelNames[l[7]]
            /\ (l[4] = "off" /\ Len(l) = 4) =>
                   info_result.ok /\ info_result.val[2] = "Off"
            /\ (l[4] = "on" /\ Len(l) = 8 /\ l[7] \notin DOMAIN LevelNames) =>
                   ~info_result.ok /\ info_result.err = "InvalidLoggingLevel"

(***************************************************************************)
(* C14: when the firewall tool exits with a non-zero status, the version,  *)
(* the enabled/logging and the defaults extractor each return an I/O error *)
(* for the whole call, and the result of none of them depends on the       *)
(* captured stdout: it is the same whatever stdout holds.                  *)
(***************************************************************************)
OtherStdouts ==
    {[output EXCEPT !.stdout = [valid |-> b, text |-> t]] :
        b \in BOOLEAN, t \in {<<>>, <<"Status", ":", " ", "active", "\n">>}}

FailedExitIsIOError ==
    (rpc = "exited" /\ output.spawned /\ ~output.success) =>
        /\ version_result # NotCalled =>
               /\ version_result.err = "io::Error"
               /\ \A o \in OtherStdouts : version(o) = version_result
        /\ info_result # NotCalled =>
               /\ info_result.err = "IOError"
               /\ \A o \in OtherStdouts : info(o) = info_result
        /\ defaults_result # NotCalled =>
               /\ defaults_result.err = "IOError"
               /\ \A o \in OtherStdouts : defaults(o) = defaults_result

(***************************************************************************)
(* C15: of a report with one Default line, the defaults extractor returns  *)
(* Ok with one (direction-default, rule-type) pair per clause of the       *)
(* header split on ', ', in clause order; a clause that is not             *)
(* '<word> (<word>)' yields a pair of errors at its position, and every    *)
(* other clause still yields its own pair.                                 *)
(***************************************************************************)
DirectionNames == [incoming |-> "INCOMING", outgoing |-> "OUTGOING", routed |-> "ROUTED"]
TypeNames == [allow |-> "ALLOW", deny |-> "DENY", reject |-> "REJECT", limit |-> "LIMIT"]

\* the clause is '<word> (<word>)'
IsClause(c) ==
    /\ Len(c) = 5
    /\ IsWord(c[1]) /\ c[2] = " " /\ c[3] = "(" /\ IsWord(c[4]) /\ c[5] = ")"

\* res is the result of naming the lower-cased word w by the table names
Named(res, w, names) ==
    IF to_ascii_lowercase(w) \in DOMAIN names
    THEN res = Ok(names[to_ascii_lowercase(w)])
    ELSE ~res.ok

DefaultsPerClause ==
    (/\ defaults_result # NotCalled /\ Reported
     /\ Cardinality(ReportLinesOf("Default")) = 1) =>
        LET l == ReportLine(CHOOSE k \in ReportLinesOf("Default") : TRUE)
            clauses == split_str(SubSeq(l, 4, Len(l)), <<",", " ">>)
        IN  /\ defaults_result.ok
            /\ Len(defaults_result.val) = Len(clauses)
            /\ \A k \in 1..Len(clauses) :
                   IF IsClause(clauses[k])
                   THEN /\ Named(defaults_result.val[k][1], clauses[k][4], DirectionNames)
                        /\ Named(defaults_result.val[k][2], clauses[k][1], TypeNames)
                   ELSE /\ ~defaults_result.val[k][1].ok
                        /\ ~defaults_result.val[k][2].ok

(***************************************************************************)
(* C17: an address built from a text without '/' carries the host-exact    *)
(* prefix: 32 for an IPv4 address and 128 for an IPv6 address.             *)
(***************************************************************************)
HostExactPrefix ==
    (address_result.ok /\ \A i \in 1..Len(addr_text) : addr_text[i] # "/") =>
        /\ addr_text[1] \in V4Literals => address_result.val.cidr = 32
        /\ addr_text[1] \in V6Literals => address_result.val.cidr = 128

(***************************************************************************)
(* C19: after any sequence of add_rule and delete_rule calls,              *)
(* delete_rule(i) with i no valid position (i at or above the number of    *)
(* staged entries, the number itself and the empty set included) returns   *)
(* None and leaves the entries unchanged, without aborting; with i a valid *)
(* position it removes and returns the entry at position i and keeps the   *)
(* other entries in their order.                                           *)
(***************************************************************************)
DeleteRuleByPosition ==
    [][ ucall'.op = "delete_rule" =>
            IF ucall'.arg >= Len(ufw_entries)
            THEN /\ ucall'.ret = Ok(None)
                 /\ ufw_entries' = ufw_entries
            ELSE /\ ucall'.ret = Ok(Some(ufw_entries[ucall'.arg + 1]))
                 /\ Len(ufw_entries') = Len(ufw_entries) - 1
                 /\ \A k \in 1..Len(ufw_entries') :
                        ufw_entries'[k] = ufw_entries[IF k <= ucall'.arg THEN k ELSE k + 1]
      ]_vars
====
